---- MODULE Spec2Model ----
(***************************************************************************)
(* Session lifecycle of mcp-ssh-interactive: the SSHSessionManager         *)
(* (ssh_session.py), the StateManager registry (state.py), the TmuxWrapper *)
(* driver (tmux_wrapper.py) and the tool functions (tools/*.py).           *)
(*                                                                         *)
(* Strings that the code inspects are sequences: a session name is a       *)
(* sequence of characters, a terminal text a sequence of words.            *)
(***************************************************************************)
EXTENDS Integers, Sequences, FiniteSets, TLC

\* ------------------------------------------------------------------ bounds

\* datetime.utcnow() yields 1..MaxTime while sessions are opened, and
\* MaxTime + 1 once the server has been started again
MaxTime == 1

\* ---------------------------------------------------------------- constants

HISTORY_LIMIT == 200000
VERIFY_LINES == 50
DEFAULT_LINES == 200
DEFAULT_PORT == 22
SETTLE_SECONDS == 3
VERSION == "1.0"
LOG_DIR == "~/.ssh_mcp_logs"

\* created_at absent (None) in a dictionary read back from JSON
NoTime == 0
Times == 1..MaxTime
LaterTime == MaxTime + 1

\* ------------------------------------------------------------ session names

Lowercase ==
    {"a","b","c","d","e","f","g","h","i","j","k","l","m",
     "n","o","p","q","r","s","t","u","v","w","x","y","z"}
Uppercase ==
    {"A","B","C","D","E","F","G","H","I","J","K","L","M",
     "N","O","P","Q","R","S","T","U","V","W","X","Y","Z"}
Digits == {"0","1","2","3","4","5","6","7","8","9"}

\* the character class [a-zA-Z0-9_-]
AllowedChars == Lowercase \cup Uppercase \cup Digits \cup {"_", "-"}

NameA == <<"s", "1">>
NameB == <<"s", "2">>
NameSpace == <<"s", " ">>
NoName == <<>>

\* session names a caller may pass
SessionNames == {NameA, NameB, NameSpace}

\* the check of the name left out
ValidSessionName_any(n) == TRUE

\* re.match(r'^[a-zA-Z0-9_-]+$', session_name): one or more allowed
\* characters, then the end of the string; Python's $ also matches just
\* before one trailing newline.
ValidSessionName(n) ==
    LET core == IF Len(n) > 0 /\ n[Len(n)] = "\n"
                THEN SubSeq(n, 1, Len(n) - 1) ELSE n
    IN /\ Len(core) > 0
       /\ \A k \in 1..Len(core) : core[k] \in AllowedChars

\* the names open_connection lets into the registry
OpenableNames == {n \in SessionNames : ValidSessionName(n)}

\* ------------------------------------------------------------------- config

KnownProfiles == {"prof-x", "prof-y"}
ProfileNames == KnownProfiles \cup {"ghost"}

\* ConfigManager.connections after a successful load
connections ==
    [p \in KnownProfiles |->
        IF p = "prof-x"
        THEN [name |-> p, host |-> "hx", user |-> "ux", port |-> 22,
              key_path |-> "/keys/x", password |-> "", description |-> "x"]
        ELSE [name |-> p, host |-> "hy", user |-> "uy", port |-> 2222,
              key_path |-> "/keys/y", password |-> "pw-y", description |-> "y"]]

connection_exists(p) == p \in DOMAIN connections

\* ---------------------------------------------------------- terminal texts

\* str.lower() on the words of the model's vocabulary
LowerWord(w) ==
    CASE w = "Permission" -> "permission"
      [] w = "DENIED" -> "denied"
      [] w = "Connection" -> "connection"
      [] w = "Network" -> "network"
      [] w = "Welcome" -> "welcome"
      [] w = "No" -> "no"
      [] OTHER -> w

Lower(text) == [k \in DOMAIN text |-> LowerWord(text[k])]

\* pattern in text: a contiguous occurrence
Contains(text, pattern) ==
    \E k \in 0..(Len(text) - Len(pattern)) :
        \A j \in 1..Len(pattern) : text[k + j] = pattern[j]

error_patterns ==
    << <<"connection", "refused">>,
       <<"permission", "denied">>,
       <<"host", "key", "verification", "failed">>,
       <<"no", "route", "to", "host">>,
       <<"network", "is", "unreachable">> >>

\* what the pane may show three seconds after ssh was started
Outputs ==
    { <<"Welcome">>,
      <<"Permission", "DENIED">>,
      <<"permission", "denied", "then", "Connection", "refused">>,
      <<"Network", "unreachable">> }

\* the scan left out
FirstErrorPattern_unchecked(output) == 0

\* the for loop over error_patterns: index of the first pattern found in
\* output.lower(), 0 when none is
FirstErrorPattern(output) ==
    LET low == Lower(output)
        hits == {k \in DOMAIN error_patterns : Contains(low, error_patterns[k])}
    IN IF hits = {} THEN 0
       ELSE CHOOSE k \in hits : \A j \in hits : k <= j

\* ----------------------------------------------------------------- registry

\* SessionState.__init__: created_at or utcnow()
SessionState(n, cc, ts, lf, created, now) ==
    [session_name |-> n, connection_config |-> cc, tmux_session |-> ts,
     log_file |-> lf,
     created_at |-> IF created # NoTime THEN created ELSE now]

to_dict(s) ==
    [connection_config |-> s.connection_config,
     tmux_session |-> s.tmux_session,
     log_file |-> s.log_file,
     created_at |-> s.created_at]

\* created_at not read back
from_dict_restamped(n, d, now) ==
    SessionState(n, d.connection_config, d.tmux_session, d.log_file,
                 NoTime, now)

from_dict(n, d, now) ==
    SessionState(n, d.connection_config, d.tmux_session, d.log_file,
                 d.created_at, now)

\* keys of the ordered dict self.sessions, kept as a sequence of records
Names(S) == {S[k].session_name : k \in DOMAIN S}

\* the registry never reports a name as taken
state_session_exists_never(S, n) == FALSE

state_session_exists(S, n) == n \in Names(S)

get_session(S, n) == CHOOSE s \in {S[k] : k \in DOMAIN S} : s.session_name = n

RECURSIVE Without(_, _)
Without(S, n) ==
    IF S = <<>> THEN <<>>
    ELSE IF Head(S).session_name = n THEN Without(Tail(S), n)
    ELSE <<Head(S)>> \o Without(Tail(S), n)

\* state_data of _save_state: the document json.dump writes
StateData(S) ==
    [version |-> VERSION,
     sessions |-> [k \in DOMAIN S |->
                      [key |-> S[k].session_name, val |-> to_dict(S[k])]]]

\* a file: absent, or holding a document, complete or cut short
NoFile == [exists |-> FALSE, complete |-> FALSE, data |-> StateData(<<>>)]
FileOf(doc) == [exists |-> TRUE, complete |-> TRUE, data |-> doc]
PartOf(doc) == [exists |-> TRUE, complete |-> FALSE, data |-> doc]

\* the sessions of a document, as _load_state rebuilds them
Parse(doc, now) ==
    [k \in DOMAIN doc.sessions |->
        from_dict(doc.sessions[k].key, doc.sessions[k].val, now)]

\* one log file for all sessions
get_log_file_path_shared(n) == <<LOG_DIR, "/", "session", ".log">>

\* get_log_file_path: os.path.join(log_dir, f"{session_name}.log")
get_log_file_path(n) == <<LOG_DIR, "/">> \o n \o <<".log">>

\* ------------------------------------------------------------------- driver
\* TmuxWrapper. P is the set of names of the live tmux sessions; fault says
\* that this tmux invocation exits non-zero or runs into its timeout.

Call(fn, target, arg, num, ok, ret) ==
    [fn |-> fn, target |-> target, arg |-> arg, num |-> num, ok |-> ok,
     ret |-> ret]

\* new-session that takes a tmux session of that name for its own
create_session_lenient(P, n, fault) ==
    IF fault
    THEN [ok |-> FALSE, procs |-> P]
    ELSE [ok |-> TRUE, procs |-> P \cup {n}]

\* tmux new-session -d -s name: refused when the name is taken
create_session(P, n, fault) ==
    IF fault \/ n \in P
    THEN [ok |-> FALSE, procs |-> P]
    ELSE [ok |-> TRUE, procs |-> P \cup {n}]

\* what subprocess.run(['tmux', 'kill-session', '-t', name], timeout=10)
\* gives: TimeoutExpired, or a return code and the text of stderr
KillReply(timeout, rc, stderr) ==
    [timeout |-> timeout, rc |-> rc, stderr |-> stderr]

KillTimeout == KillReply(TRUE, 0, <<>>)
KillDone == KillReply(FALSE, 0, <<>>)

\* wordings of stderr when tmux has no session of the name: the one
\* kill_session looks for, and those of tmux's "can't find session: name"
\* and "no server running on socket"
AbsentStderr ==
    { <<"No", "session", "found">>,
      <<"can't", "find", "session">>,
      <<"no", "server", "running">> }

\* the replies tmux can give to a kill-session of n while the sessions P live
KillReplies(P, n) ==
    {KillTimeout, KillReply(FALSE, 1, <<"lost", "server">>)}
    \cup (IF n \in P THEN {KillDone}
          ELSE {KillReply(FALSE, 1, m) : m \in AbsentStderr})

\* kill_session on the reply r: TmuxError on a timeout and on a return code
\* other than 0 unless 'no session found' is in stderr.lower()
kill_session_on(P, n, r) ==
    IF r.timeout
    THEN [ok |-> FALSE, procs |-> P]
    ELSE IF r.rc # 0 /\ ~Contains(Lower(r.stderr), <<"no", "session", "found">>)
    THEN [ok |-> FALSE, procs |-> P]
    ELSE [ok |-> TRUE, procs |-> IF r.rc = 0 THEN P \ {n} ELSE P]

\* kill_session with fault: the call times out, or tmux exits with an error
\* that kill_session does not take for an absent session; without: tmux
\* ends the session, or reports in the expected words that there is none
kill_session(P, n, fault) ==
    kill_session_on(P, n,
        IF fault THEN KillTimeout
        ELSE IF n \in P THEN KillDone
        ELSE KillReply(FALSE, 1, <<"No", "session", "found">>))

\* tmux has-session -t name: the return code, or TmuxError on a timeout
tmux_session_exists(P, n, fault) ==
    IF fault
    THEN [ok |-> FALSE, value |-> FALSE]
    ELSE [ok |-> TRUE, value |-> n \in P]

set_history_limit(P, n, fault) == ~fault /\ n \in P

send_keys(P, n, fault) == ~fault /\ n \in P

send_ctrl_c(P, n, fault) == ~fault /\ n \in P

start_logging(P, n, fault) == ~fault /\ n \in P

capture_pane(P, n, fault) == ~fault /\ n \in P

\* ------------------------------------------------------------ StateManager
\* S is self.sessions, D the file at state_path; ioFail says that the
\* rewrite of the file raises (mkstemp, write, chmod or replace).

\* _save_state as one step: the file is replaced as a whole or not at all
save_state(S, D, ioFail) ==
    IF ioFail
    THEN [raised |-> TRUE, disk |-> D]
    ELSE [raised |-> FALSE, disk |-> FileOf(StateData(S))]

\* a record of that name replaced by the new one
add_session_overwriting(S, D, n, cc, ts, lf, now, ioFail) ==
    LET S2 == Append(Without(S, n), SessionState(n, cc, ts, lf, NoTime, now))
        sv == save_state(S2, D, ioFail)
    IN [raised |-> sv.raised, sessions |-> S2, disk |-> sv.disk, saves |-> 1]

add_session(S, D, n, cc, ts, lf, now, ioFail) ==
    IF n \in Names(S)
    THEN [raised |-> TRUE, sessions |-> S, disk |-> D, saves |-> 0]
    ELSE LET S2 == Append(S, SessionState(n, cc, ts, lf, NoTime, now))
             sv == save_state(S2, D, ioFail)
         IN [raised |-> sv.raised, sessions |-> S2, disk |-> sv.disk,
             saves |-> 1]

\* the record deleted from memory and the file left as it is
remove_session_unsaved(S, D, n, ioFail) ==
    IF n \in Names(S)
    THEN [raised |-> FALSE, sessions |-> Without(S, n), disk |-> D,
          saves |-> 0]
    ELSE [raised |-> FALSE, sessions |-> S, disk |-> D, saves |-> 0]

remove_session(S, D, n, ioFail) ==
    IF n \in Names(S)
    THEN LET S2 == Without(S, n)
             sv == save_state(S2, D, ioFail)
         IN [raised |-> sv.raised, sessions |-> S2, disk |-> sv.disk,
             saves |-> 1]
    ELSE [raised |-> FALSE, sessions |-> S, disk |-> D, saves |-> 0]

\* StateManager.__init__ / _load_state on the file D; ioFail: the write of
\* the empty file raises, or the open of the file that is there
load_state(D, now, ioFail) ==
    IF ~D.exists
    THEN LET sv == save_state(<<>>, D, ioFail)
         IN [raised |-> sv.raised, sessions |-> <<>>, disk |-> sv.disk]
    ELSE IF ~D.complete \/ ioFail
    THEN [raised |-> TRUE, sessions |-> <<>>, disk |-> D]
    ELSE [raised |-> FALSE, sessions |-> Parse(D.data, now), disk |-> D]

\* -------------------------------------------------------------------- state

VARIABLES
    sessions,   \* StateManager.sessions, in insertion order
    disk,       \* the file at StateManager.state_path
    procs,      \* names of the live tmux sessions
    logdir,     \* whether ~/.ssh_mcp_logs exists
    calls,      \* the driver calls of the last operation, in order
    result,     \* what the last operation returned
    tmp,        \* the temporary file of a _save_state that is under way
    writer      \* where the process that writes the state file stands

vars == <<sessions, disk, procs, logdir, calls, result, tmp, writer>>

\* writer.pc: "idle", a step of _save_state, or "dead"; pre and post are the
\* state file before the rewrite and the file the rewrite is to produce
Writer(pc, pre, post, killedAt) ==
    [pc |-> pc, pre |-> pre, post |-> post, killedAt |-> killedAt]

NoInfo == [host |-> "", user |-> "", port |-> 0]

\* a tool's return value; keys are the keys of the returned dict
Result(op, p, n) ==
    [op |-> op, profile |-> p, name |-> n, keys |-> {}, success |-> FALSE,
     error |-> "", detail |-> "", pattern |-> <<>>, available |-> {},
     info |-> NoInfo, status |-> "", listing |-> <<>>, total |-> 0,
     output |-> <<>>, lines |-> 0, command |-> <<>>, configs |-> <<>>,
     raised |-> ""]

Failure(op, p, n, err, detail) ==
    [Result(op, p, n) EXCEPT !.keys = {"success", "error"},
                             !.error = err, !.detail = detail]

\* ------------------------------------------------------- SSHSessionManager

\* str(conn_config.port)
PortStr(port) == CASE port = 22 -> "22" [] port = 2222 -> "2222"

\* _build_ssh_command, the parts that ' '.join puts together
build_ssh_command(conn) ==
    <<"ssh", "-tt">>
    \o (IF conn.key_path # "" THEN <<"-i", conn.key_path>> ELSE <<>>)
    \o (IF conn.port # DEFAULT_PORT THEN <<"-p", PortStr(conn.port)>> ELSE <<>>)
    \o <<conn.user, "@", conn.host>>

\* the steps of open_connection an injected failure can hit
FaultPoints ==
    {"none", "create_session", "set_history_limit", "send_keys", "send_enter",
     "start_logging", "capture_pane", "add_session"}

\* how many kill-session invocations of one call fail, from the first on
KillFaults == {0, 1, 2}

\* the inputs of one open_connection call; an input the call does not read
\* (the pane text when no capture is made, the clock when no record is built,
\* a kill outcome when no kill is made) is held at one value
OpenInputs ==
    {i \in [failAt : FaultPoints, kills : KillFaults, out : Outputs,
            now : Times] :
        LET early == i.failAt \notin {"none", "add_session"}
            pat == FirstErrorPattern(i.out)
        IN /\ early => i.out = <<"Welcome">> /\ i.now = 1 /\ i.kills <= 1
           /\ i.failAt = "create_session" => i.kills = 0
           /\ ~early /\ pat # 0 => i.now = 1 /\ i.failAt = "none"
           /\ i.failAt = "none" /\ pat = 0 => i.kills = 0
           /\ i.failAt = "add_session" => i.kills <= 1}

\* a call that the checks of steps 1 to 3 reject reads none of the inputs
OpenInputsFor(S, p, n) ==
    IF connection_exists(p) /\ ValidSessionName(n) /\ ~state_session_exists(S, n)
    THEN OpenInputs
    ELSE {[failAt |-> "none", kills |-> 0, out |-> <<"Welcome">>, now |-> 1]}

\* open_connection(connection_config_name = p, session_name = n) on registry
\* S, file D, live tmux sessions P, log directory present L.
\* failAt: the step that fails; kills: the failing kill-session attempts;
\* out: the pane text capture-pane returns; now: utcnow().
open_connection(S, D, P, L, p, n, failAt, kills, out, now) ==
    LET Out(raised, err, pat, S2, D2, P2, L2, C) ==
            [raised |-> raised, error |-> err, pattern |-> pat,
             sessions |-> S2, disk |-> D2, procs |-> P2,
             logdir |-> L2, calls |-> C]
        log_file == get_log_file_path(n)
        cr == create_session(P, n, failAt = "create_session")
        P1 == cr.procs
        C1 == <<Call("create_session", n, <<>>, 0, cr.ok, <<>>)>>
        okHist == set_history_limit(P1, n, failAt = "set_history_limit")
        C2 == Append(C1, Call("set_history_limit", n, <<>>, HISTORY_LIMIT,
                              okHist, <<>>))
        okText == send_keys(P1, n, failAt = "send_keys")
        C3 == Append(C2, Call("send_keys", n, build_ssh_command(connections[p]),
                              0, okText, <<>>))
        okEnter == send_keys(P1, n, failAt = "send_enter")
        C4 == Append(C3, Call("send_keys", n, <<"Enter">>, 0, okEnter, <<>>))
        okLog == start_logging(P1, n, failAt = "start_logging")
        C5 == Append(C4, Call("start_logging", n, log_file, 0, okLog, <<>>))
        okCap == capture_pane(P1, n, failAt = "capture_pane")
        C6 == Append(Append(C5, Call("sleep", NoName, <<>>, SETTLE_SECONDS,
                                     TRUE, <<>>)),
                     Call("capture_pane", n, <<>>, VERIFY_LINES, okCap,
                          IF okCap THEN out ELSE <<>>))
        pat == FirstErrorPattern(out)
        add == add_session(S, D, n, p, n, log_file, now,
                           failAt = "add_session")
        \* self.tmux.kill_session(session_name); raise SSHSessionError(err)
        Rollback(C, err, S2, D2) ==
            LET k == kill_session(P1, n, kills >= 1)
                Ck == Append(C, Call("kill_session", n, <<>>, 0, k.ok, <<>>))
            IN IF k.ok
               THEN Out("SSHSessionError", err, <<>>, S2, D2, k.procs, TRUE, Ck)
               ELSE Out("TmuxError", "Failed to kill session", <<>>, S2, D2,
                        k.procs, TRUE, Ck)
        \* the kill inside the try block, whose TmuxError the except clause
        \* catches and answers with a second kill
        Rejected ==
            LET k1 == kill_session(P1, n, kills >= 1)
                Ck1 == Append(C6, Call("kill_session", n, <<>>, 0, k1.ok, <<>>))
                k2 == kill_session(k1.procs, n, kills >= 2)
                Ck2 == Append(Ck1, Call("kill_session", n, <<>>, 0, k2.ok, <<>>))
            IN IF k1.ok
               THEN Out("SSHSessionError", "SSH connection failed",
                        error_patterns[pat], S, D, k1.procs, TRUE, Ck1)
               ELSE IF k2.ok
               THEN Out("SSHSessionError", "Failed to verify connection", <<>>,
                        S, D, k2.procs, TRUE, Ck2)
               ELSE Out("TmuxError", "Failed to kill session", <<>>, S, D,
                        k2.procs, TRUE, Ck2)
    IN IF ~connection_exists(p)
       THEN Out("SSHSessionError", "Connection config not found", <<>>,
                S, D, P, L, <<>>)
       ELSE IF ~ValidSessionName(n)
       THEN Out("SSHSessionError", "Invalid session name", <<>>,
                S, D, P, L, <<>>)
       ELSE IF state_session_exists(S, n)
       THEN Out("SSHSessionError", "already exists", <<>>, S, D, P, L, <<>>)
       ELSE IF ~cr.ok
       THEN Out("SSHSessionError", "Failed to create tmux session", <<>>,
                S, D, P, TRUE, C1)
       ELSE IF ~okHist THEN Rollback(C2, "Failed to set history limit", S, D)
       ELSE IF ~okText THEN Rollback(C3, "Failed to start SSH", S, D)
       ELSE IF ~okEnter THEN Rollback(C4, "Failed to start SSH", S, D)
       ELSE IF ~okLog THEN Rollback(C5, "Failed to start logging", S, D)
       ELSE IF ~okCap THEN Rollback(C6, "Failed to verify connection", S, D)
       ELSE IF pat # 0 THEN Rejected
       ELSE IF add.raised
       THEN Rollback(C6, "Failed to update state", add.sessions, add.disk)
       ELSE Out("", "", <<>>, add.sessions, add.disk, P1, TRUE, C6)

\* close_connection that lets the TmuxError of kill_session through
close_connection_strict(S, D, P, n, killFault, ioFail) ==
    LET k == kill_session(P, n, killFault)
        Ck == <<Call("kill_session", n, <<>>, 0, k.ok, <<>>)>>
        rm == remove_session(S, D, n, ioFail)
    IN IF ~state_session_exists(S, n)
       THEN [raised |-> "SSHSessionError", error |-> "Session not found",
             sessions |-> S, disk |-> D, procs |-> P,
             calls |-> <<>>]
       ELSE IF ~k.ok
       THEN [raised |-> "TmuxError", error |-> "Failed to kill session",
             sessions |-> S, disk |-> D, procs |-> k.procs, calls |-> Ck]
       ELSE IF rm.raised
       THEN [raised |-> "StateError", error |-> "Failed to save state",
             sessions |-> rm.sessions, disk |-> rm.disk, procs |-> k.procs,
             calls |-> Ck]
       ELSE [raised |-> "", error |-> "", sessions |-> rm.sessions,
             disk |-> rm.disk, procs |-> k.procs, calls |-> Ck]

\* close_connection(session_name = n); killFault: kill-session fails;
\* ioFail: the rewrite of the state file fails
close_connection(S, D, P, n, killFault, ioFail) ==
    LET k == kill_session(P, n, killFault)
        Ck == <<Call("kill_session", n, <<>>, 0, k.ok, <<>>)>>
        rm == remove_session(S, D, n, ioFail)
    IN IF ~state_session_exists(S, n)
       THEN [raised |-> "SSHSessionError", error |-> "Session not found",
             sessions |-> S, disk |-> D, procs |-> P,
             calls |-> <<>>]
       ELSE IF rm.raised
       THEN [raised |-> "StateError", error |-> "Failed to save state",
             sessions |-> rm.sessions, disk |-> rm.disk, procs |-> k.procs,
             calls |-> Ck]
       ELSE [raised |-> "", error |-> "", sessions |-> rm.sessions,
             disk |-> rm.disk, procs |-> k.procs, calls |-> Ck]

\* every record listed as active
SessionInfo_alive(s, status) ==
    LET known == connection_exists(s.connection_config)
    IN [session_name |-> s.session_name,
        connection_config |-> s.connection_config,
        status |-> "active",
        has_host |-> known,
        host |-> IF known THEN connections[s.connection_config].host ELSE "",
        user |-> IF known THEN connections[s.connection_config].user ELSE ""]

\* one entry of list_connections for the record s
SessionInfo(s, status) ==
    LET known == connection_exists(s.connection_config)
    IN [session_name |-> s.session_name,
        connection_config |-> s.connection_config,
        status |-> status,
        has_host |-> known,
        host |-> IF known THEN connections[s.connection_config].host ELSE "",
        user |-> IF known THEN connections[s.connection_config].user ELSE ""]

\* list_connections; failIdx: the record whose has-session times out (0: none)
list_connections(S, P, failIdx) ==
    LET last == IF failIdx = 0 THEN Len(S) ELSE failIdx
        ex(k) == tmux_session_exists(P, S[k].session_name, k = failIdx)
    IN [raised |-> IF failIdx = 0 THEN "" ELSE "TmuxError",
        calls |-> [k \in 1..last |->
                     Call("has_session", S[k].session_name, <<>>, 0, ex(k).ok,
                          <<>>)],
        listing |-> IF failIdx # 0 THEN <<>>
                    ELSE [k \in 1..Len(S) |->
                            SessionInfo(S[k], IF ex(k).value THEN "active"
                                              ELSE "disconnected")]]

\* the driver asked first, the registry only when no process is found
get_session_status_probe_first(S, P, n, fault) ==
    LET ex == tmux_session_exists(P, n, fault)
        Cx == <<Call("has_session", n, <<>>, 0, ex.ok, <<>>)>>
    IN IF ~ex.ok
       THEN [raised |-> "TmuxError", status |-> "", calls |-> Cx]
       ELSE IF ex.value
       THEN [raised |-> "", status |-> "active", calls |-> Cx]
       ELSE [raised |-> "", calls |-> Cx,
             status |-> IF state_session_exists(S, n) THEN "disconnected"
                        ELSE "not_found"]

\* get_session_status(session_name = n); fault: has-session times out
get_session_status(S, P, n, fault) ==
    LET ex == tmux_session_exists(P, n, fault)
        Cx == <<Call("has_session", n, <<>>, 0, ex.ok, <<>>)>>
    IN IF ~state_session_exists(S, n)
       THEN [raised |-> "", status |-> "not_found", calls |-> <<>>]
       ELSE IF ~ex.ok
       THEN [raised |-> "TmuxError", status |-> "", calls |-> Cx]
       ELSE [raised |-> "", calls |-> Cx,
             status |-> IF ex.value THEN "active" ELSE "disconnected"]

\* -------------------------------------------------------------------- tools

Commands == { <<"uptime">> }

\* the checks every tool of execution.py / terminal.py starts with, then its
\* driver calls Cs (each with its outcome), given as the calls it would make
\* in order; the first that fails ends the tool with a Tmux error
RECURSIVE UpToFailure(_)
UpToFailure(Cs) ==
    IF Cs = <<>> THEN <<>>
    ELSE IF ~Head(Cs).ok THEN <<Head(Cs)>>
    ELSE <<Head(Cs)>> \o UpToFailure(Tail(Cs))

AllOk(Cs) == \A k \in DOMAIN Cs : Cs[k].ok

\* the liveness check left out
GuardedTool_unprobed(op, S, P, n, existsFault, Cs, okResult) ==
    IF ~state_session_exists(S, n)
    THEN [calls |-> <<>>,
          result |-> Failure(op, "", n, "Session not found", "")]
    ELSE IF ~AllOk(Cs)
    THEN [calls |-> UpToFailure(Cs),
          result |-> [Failure(op, "", n, "Tmux error", "")
                         EXCEPT !.raised = "TmuxError"]]
    ELSE [calls |-> Cs, result |-> okResult]

GuardedTool(op, S, P, n, existsFault, Cs, okResult) ==
    LET ex == tmux_session_exists(P, n, existsFault)
        Cx == <<Call("has_session", n, <<>>, 0, ex.ok, <<>>)>>
    IN IF ~state_session_exists(S, n)
       THEN [calls |-> <<>>,
             result |-> [Failure(op, "", n, "Session not found", "")
                            EXCEPT !.available =
                                IF op = "execute_command" THEN Names(S) ELSE {}]]
       ELSE IF ~ex.ok
       THEN [calls |-> Cx,
             result |-> [Failure(op, "", n, "Tmux error",
                                 "Timeout checking session")
                            EXCEPT !.raised = "TmuxError"]]
       ELSE IF ~ex.value
       THEN [calls |-> Cx,
             result |-> Failure(op, "", n, "Session is not active", "")]
       ELSE IF ~AllOk(Cs)
       THEN [calls |-> Cx \o UpToFailure(Cs),
             result |-> [Failure(op, "", n, "Tmux error", "")
                            EXCEPT !.raised = "TmuxError"]]
       ELSE [calls |-> Cx \o Cs, result |-> okResult]

\* execute_command_tool; sendFault: which send-keys invocation fails
execute_command_tool(S, P, n, cmd, existsFault, sendFault) ==
    GuardedTool("execute_command", S, P, n, existsFault,
        << Call("send_keys", n, cmd, 0,
                send_keys(P, n, sendFault = "send_keys"), <<>>),
           Call("send_keys", n, <<"Enter">>, 0,
                send_keys(P, n, sendFault = "send_enter"), <<>>) >>,
        [Result("execute_command", "", n) EXCEPT
            !.keys = {"success", "session_name", "command", "message"},
            !.success = TRUE, !.command = cmd])

\* len(output.split('\n'))
LineCount(output) == 1 + Cardinality({k \in DOMAIN output : output[k] = "\n"})

\* get_terminal_output_tool
get_terminal_output_tool(S, P, n, num_lines, existsFault, capFault, out) ==
    GuardedTool("get_terminal_output", S, P, n, existsFault,
        << Call("capture_pane", n, <<>>, num_lines,
                capture_pane(P, n, capFault),
                IF capture_pane(P, n, capFault) THEN out ELSE <<>>) >>,
        [Result("get_terminal_output", "", n) EXCEPT
            !.keys = {"success", "session_name", "output", "lines"},
            !.success = TRUE, !.output = out, !.lines = LineCount(out)])

\* interrupt_command_tool
interrupt_command_tool(S, P, n, existsFault, sendFault) ==
    GuardedTool("interrupt_command", S, P, n, existsFault,
        << Call("send_ctrl_c", n, <<"C-c">>, 0,
                send_ctrl_c(P, n, sendFault), <<>>) >>,
        [Result("interrupt_command", "", n) EXCEPT
            !.keys = {"success", "session_name", "message"},
            !.success = TRUE])

\* the summary of a profile with its key path
conn_to_dict_full(conn) ==
    [name |-> conn.name, host |-> conn.host, user |-> conn.user,
     port |-> conn.port, description |-> conn.description,
     key_path |-> conn.key_path]

\* ConnectionConfig.to_dict: the summary of one profile
conn_to_dict(conn) ==
    [name |-> conn.name, host |-> conn.host, user |-> conn.user,
     port |-> conn.port, description |-> conn.description]

\* the profile names in the order of the configuration file
ProfileOrder == <<"prof-x", "prof-y">>

\* ConfigManager.list_connections on the profiles conns
config_list_connections(conns) ==
    [k \in DOMAIN ProfileOrder |->
        conn_to_dict(conns[ProfileOrder[k]])]

\* list_available_configs
list_available_configs(conns) ==
    [Result("list_available_configs", "", NoName) EXCEPT
        !.keys = {"configs"},
        !.configs = config_list_connections(conns)]

\* 'connection_info' of open_connection's return value
ConnectionInfo(conn) ==
    [host |-> conn.host, user |-> conn.user, port |-> conn.port]

\* open_connection_tool around the outcome o of open_connection(p, n)
open_connection_tool(o, p, n) ==
    IF o.raised = ""
    THEN [Result("open_connection", p, n) EXCEPT
            !.keys = {"success", "session_name", "message", "connection_info"},
            !.success = TRUE,
            !.info = ConnectionInfo(connections[p])]
    ELSE IF o.raised = "SSHSessionError"
    THEN [Failure("open_connection", p, n, o.error, "") EXCEPT
            !.pattern = o.pattern,
            !.raised = o.raised,
            !.available = IF o.error = "Connection config not found"
                          THEN DOMAIN connections ELSE {}]
    ELSE [Failure("open_connection", p, n, "Unexpected error", o.error)
            EXCEPT !.raised = o.raised]

\* close_connection_tool with its first except clause only
close_connection_tool_narrow(o, S, n) ==
    IF o.raised = ""
    THEN [Result("close_connection", "", n) EXCEPT
            !.keys = {"success", "session_name", "message"},
            !.success = TRUE]
    ELSE IF o.raised = "SSHSessionError"
    THEN [Failure("close_connection", "", n, o.error, "") EXCEPT
            !.raised = o.raised, !.available = Names(S)]
    ELSE [Result("close_connection", "", n) EXCEPT !.raised = o.raised]

\* close_connection_tool around the outcome o of close_connection(n) on the
\* registry S
close_connection_tool(o, S, n) ==
    IF o.raised = ""
    THEN [Result("close_connection", "", n) EXCEPT
            !.keys = {"success", "session_name", "message"},
            !.success = TRUE]
    ELSE IF o.raised = "SSHSessionError"
    THEN [Failure("close_connection", "", n, o.error, "") EXCEPT
            !.raised = o.raised, !.available = Names(S)]
    ELSE [Failure("close_connection", "", n, "Unexpected error", o.error)
            EXCEPT !.raised = o.raised]

\* list_connections_tool around the outcome o of list_connections()
list_connections_tool(o) ==
    IF o.raised = ""
    THEN [Result("list_connections", "", NoName) EXCEPT
            !.keys = {"sessions", "total"},
            !.listing = o.listing, !.total = Len(o.listing)]
    ELSE [Result("list_connections", "", NoName) EXCEPT
            !.keys = {"sessions", "total", "error"},
            !.error = "Timeout checking session",
            !.raised = o.raised]

\* the else branch of handle_call_tool
unknown_tool ==
    [Result("unknown_tool", "", NoName) EXCEPT
        !.keys = {"error"}, !.error = "Unknown tool"]

\* ------------------------------------------------------------------ actions

Init ==
    /\ sessions = <<>>
    /\ disk = FileOf(StateData(<<>>))
    /\ procs = {}
    /\ logdir = FALSE
    /\ calls = <<>>
    /\ result = Result("idle", "", NoName)
    /\ tmp = NoFile
    /\ writer = Writer("idle", disk, disk, "")

\* no tool call is being handled: calls are handled one at a time, each to
\* its end
Idle == result.op = "idle"

\* handle_call_tool, name = "open_connection"
OpenConnection(p, n, failAt, kills, out, now) ==
    LET o == open_connection(sessions, disk, procs, logdir,
                             p, n, failAt, kills, out, now)
    IN /\ Idle
       /\ sessions' = o.sessions
       /\ disk' = o.disk
       /\ procs' = o.procs
       /\ logdir' = o.logdir
       /\ calls' = o.calls
       /\ result' = open_connection_tool(o, p, n)
       /\ UNCHANGED <<tmp, writer>>

\* handle_call_tool, name = "close_connection"
CloseConnection(n, killFault, ioFail) ==
    LET o == close_connection(sessions, disk, procs, n, killFault, ioFail)
    IN /\ Idle
       /\ sessions' = o.sessions
       /\ disk' = o.disk
       /\ procs' = o.procs
       /\ calls' = o.calls
       /\ result' = close_connection_tool(o, sessions, n)
       /\ UNCHANGED <<logdir, tmp, writer>>

\* records whose process is gone dropped while listing
ListConnections_pruning(failIdx) ==
    LET o == list_connections(sessions, procs, failIdx)
        live == SelectSeq(sessions, LAMBDA r : r.session_name \in procs)
    IN /\ Idle
       /\ calls' = o.calls
       /\ result' = [Result("list_connections", "", NoName) EXCEPT
                        !.keys = {"sessions", "total"},
                        !.listing = o.listing, !.total = Len(o.listing),
                        !.raised = o.raised]
       /\ sessions' = live
       /\ disk' = save_state(live, disk, FALSE).disk
       /\ UNCHANGED <<procs, logdir, tmp, writer>>

\* handle_call_tool, name = "list_connections"
ListConnections(failIdx) ==
    LET o == list_connections(sessions, procs, failIdx)
    IN /\ Idle
       /\ calls' = o.calls
       /\ result' = list_connections_tool(o)
       /\ UNCHANGED <<sessions, disk, procs, logdir, tmp, writer>>

\* SSHSessionManager.get_session_status
GetSessionStatus(n, fault) ==
    LET o == get_session_status(sessions, procs, n, fault)
    IN /\ Idle
       /\ calls' = o.calls
       /\ result' = [Result("get_session_status", "", n) EXCEPT
                        !.status = o.status, !.raised = o.raised]
       /\ UNCHANGED <<sessions, disk, procs, logdir, tmp, writer>>

ExecuteCommand(n, cmd, existsFault, sendFault) ==
    LET o == execute_command_tool(sessions, procs, n, cmd, existsFault, sendFault)
    IN /\ Idle
       /\ calls' = o.calls
       /\ result' = o.result
       /\ UNCHANGED <<sessions, disk, procs, logdir, tmp, writer>>

GetTerminalOutput(n, existsFault, capFault, out) ==
    LET o == get_terminal_output_tool(sessions, procs, n, DEFAULT_LINES,
                                      existsFault, capFault, out)
    IN /\ Idle
       /\ calls' = o.calls
       /\ result' = o.result
       /\ UNCHANGED <<sessions, disk, procs, logdir, tmp, writer>>

InterruptCommand(n, existsFault, sendFault) ==
    LET o == interrupt_command_tool(sessions, procs, n, existsFault, sendFault)
    IN /\ Idle
       /\ calls' = o.calls
       /\ result' = o.result
       /\ UNCHANGED <<sessions, disk, procs, logdir, tmp, writer>>

\* handle_call_tool, name = "list_available_configs"
ListAvailableConfigs ==
    /\ Idle
    /\ result' = list_available_configs(connections)
    /\ calls' = <<>>
    /\ UNCHANGED <<sessions, disk, procs, logdir, tmp, writer>>

\* handle_call_tool with a name that is none of the tools
UnknownTool ==
    /\ Idle
    /\ result' = unknown_tool
    /\ calls' = <<>>
    /\ UNCHANGED <<sessions, disk, procs, logdir, tmp, writer>>

\* a restart that keeps only the records whose tmux session is running
Restart_pruning(now) ==
    LET o == load_state(disk, now, FALSE)
        live == SelectSeq(o.sessions, LAMBDA r : r.session_name \in procs)
    IN /\ Idle
       /\ sessions' = live
       /\ disk' = save_state(live, o.disk, FALSE).disk
       /\ UNCHANGED <<procs, logdir, calls, result, tmp, writer>>

\* the server process ends and main() starts again: StateManager() reads the
\* state file
Restart(now) ==
    LET o == load_state(disk, now, FALSE)
    IN /\ Idle
       /\ sessions' = o.sessions
       /\ disk' = o.disk
       /\ UNCHANGED <<procs, logdir, calls, result, tmp, writer>>

\* handle_call_tool hands the result to the client; nothing of it is kept
Respond ==
    /\ ~Idle
    /\ result' = Result("idle", "", NoName)
    /\ calls' = <<>>
    /\ UNCHANGED <<sessions, disk, procs, logdir, tmp, writer>>

\* a tmux session ends on its own (the shell exits, tmux is killed)
ProcessDies(n) ==
    /\ Idle
    /\ n \in procs
    /\ procs' = procs \ {n}
    /\ UNCHANGED <<sessions, disk, logdir, calls, result, tmp, writer>>

Next ==
    \/ \E p \in ProfileNames, n \in SessionNames :
          \E i \in OpenInputsFor(sessions, p, n) :
             OpenConnection(p, n, i.failAt, i.kills, i.out, i.now)
    \/ \E n \in SessionNames, killFault \in BOOLEAN, ioFail \in BOOLEAN :
          CloseConnection(n, killFault, ioFail)
    \/ \E failIdx \in 0..Len(sessions) : ListConnections(failIdx)
    \/ \E n \in SessionNames, fault \in BOOLEAN : GetSessionStatus(n, fault)
    \/ \E n \in SessionNames, cmd \in Commands, existsFault \in BOOLEAN,
          sendFault \in {"none", "send_keys", "send_enter"} :
          ExecuteCommand(n, cmd, existsFault, sendFault)
    \/ \E n \in SessionNames, existsFault \in BOOLEAN, capFault \in BOOLEAN,
          out \in Outputs : GetTerminalOutput(n, existsFault, capFault, out)
    \/ \E n \in SessionNames, existsFault \in BOOLEAN, sendFault \in BOOLEAN :
          InterruptCommand(n, existsFault, sendFault)
    \/ ListAvailableConfigs
    \/ UnknownTool
    \/ Restart(LaterTime)
    \/ Respond
    \/ \E n \in SessionNames : ProcessDies(n)

Spec == Init /\ [][Next]_vars

\* ------------------------------------------------- session name validation
\* open_connection on an empty registry, for every session name of up to
\* MaxNameLen characters over IdChars

MaxNameLen == 2

IdChars == {"s", "1", "Z", "_", "-", " ", "@", ".", "/", "\\", "\n"}

IdentityInputs ==
    UNION {[1..k -> IdChars] : k \in 0..MaxNameLen}

ValidateNext ==
    \/ \E p \in ProfileNames, n \in IdentityInputs :
          /\ sessions = <<>>
          /\ OpenConnection(p, n, "none", 0, <<"Welcome">>, 1)
    \/ Respond

ValidateSpec == Init /\ [][ValidateNext]_vars

\* ------------------------------------------------- two StateManager objects
\* Two StateManager instances on one state file, nothing keeping them apart.
\* Here sessions[m] is self.sessions of instance m, and result[m] tells
\* whether m is constructed, which names its _load_state found in the file,
\* which names its add_session was called with and which of these calls
\* returned without raising.

Managers == {"A", "B"}

RaceInit ==
    /\ sessions = [m \in Managers |-> <<>>]
    /\ disk = FileOf(StateData(<<>>))
    /\ procs = {}
    /\ logdir = FALSE
    /\ calls = <<>>
    /\ result = [m \in Managers |->
                   [built |-> FALSE, loaded |-> {}, tried |-> {},
                    added |-> {}]]
    /\ tmp = NoFile
    /\ writer = Writer("idle", disk, disk, "")

\* StateManager(state_path) for instance m
Construct(m) ==
    LET o == load_state(disk, LaterTime, FALSE)
    IN /\ ~result[m].built
       /\ ~o.raised
       /\ sessions' = [sessions EXCEPT ![m] = o.sessions]
       /\ disk' = o.disk
       /\ result' = [result EXCEPT ![m].built = TRUE,
                                   ![m].loaded = Names(o.sessions)]
       /\ UNCHANGED <<procs, logdir, calls, tmp, writer>>

\* add_session that reads the file again before it adds
RaceAdd_rereading(m, n, cc, now, ioFail) ==
    LET a == add_session(load_state(disk, LaterTime, FALSE).sessions, disk,
                         n, cc, n, get_log_file_path(n), now, ioFail)
    IN /\ result[m].built
       /\ n \notin Names(load_state(disk, LaterTime, FALSE).sessions)
       /\ sessions' = [sessions EXCEPT ![m] = a.sessions]
       /\ disk' = a.disk
       /\ result' = [result EXCEPT
                        ![m].tried = @ \cup {n},
                        ![m].added = IF a.raised THEN @ ELSE @ \cup {n}]
       /\ UNCHANGED <<procs, logdir, calls, tmp, writer>>

\* m.add_session(n, cc, n, log file)
RaceAdd(m, n, cc, now, ioFail) ==
    LET a == add_session(sessions[m], disk, n, cc, n, get_log_file_path(n),
                         now, ioFail)
    IN /\ result[m].built
       /\ n \notin Names(sessions[m])
       /\ sessions' = [sessions EXCEPT ![m] = a.sessions]
       /\ disk' = a.disk
       /\ result' = [result EXCEPT
                        ![m].tried = @ \cup {n},
                        ![m].added = IF a.raised THEN @ ELSE @ \cup {n}]
       /\ UNCHANGED <<procs, logdir, calls, tmp, writer>>

RaceNext ==
    \/ \E m \in Managers : Construct(m)
    \/ \E m \in Managers, n \in OpenableNames, cc \in KnownProfiles,
          now \in Times, ioFail \in BOOLEAN : RaceAdd(m, n, cc, now, ioFail)

RaceSpec == RaceInit /\ [][RaceNext]_vars

\* ------------------------------------------------------------------ main()
\* The start of the server on every state file it may find.

\* the registries of up to two records a state file may hold
StartupRegistries ==
    LET rec(n, p) == SessionState(n, p, n, get_log_file_path(n), 1, 1)
        one == {<<rec(n, p)>> : n \in OpenableNames, p \in KnownProfiles}
        two == {a \o b : a \in one, b \in one}
    IN {<<>>} \cup one
       \cup {r \in two : r[1].session_name # r[2].session_name}

StartupFiles ==
    {NoFile} \cup {FileOf(StateData(S)) : S \in StartupRegistries}
             \cup {PartOf(StateData(S)) : S \in StartupRegistries}

StartupInit ==
    /\ sessions = <<>>
    /\ disk \in StartupFiles
    /\ procs = {}
    /\ logdir = FALSE
    /\ calls = <<>>
    /\ result = Result("idle", "", NoName)
    /\ tmp = NoFile
    /\ writer = Writer("idle", disk, disk, "")

\* main(): sys.exit(1) or the server running. tmuxInstalled: what
\* check_tmux_installed returns; configOk: ConfigManager() raises nothing;
\* ioFail: the state file cannot be opened, or not be created
Main(tmuxInstalled, configOk, ioFail) ==
    LET o == load_state(disk, LaterTime, ioFail)
        Exit(err, exc) == [Result("main", "", NoName) EXCEPT
                             !.status = "exit", !.error = err, !.raised = exc]
    IN /\ Idle
       /\ calls' = <<>>
       /\ UNCHANGED <<procs, logdir, tmp, writer>>
       /\ IF ~tmuxInstalled
          THEN /\ result' = Exit("tmux is not installed", "")
               /\ UNCHANGED <<sessions, disk>>
          ELSE IF ~configOk
          THEN /\ result' = Exit("Configuration error", "ConfigError")
               /\ UNCHANGED <<sessions, disk>>
          ELSE IF o.raised
          THEN /\ result' = Exit("Initialization error", "StateError")
               /\ sessions' = <<>>
               /\ disk' = o.disk
          ELSE /\ result' = [Result("main", "", NoName) EXCEPT
                                !.status = "running", !.success = TRUE]
               /\ sessions' = o.sessions
               /\ disk' = o.disk

StartupNext ==
    \E tmuxInstalled \in BOOLEAN, configOk \in BOOLEAN, ioFail \in BOOLEAN :
        Main(tmuxInstalled, configOk, ioFail)

StartupSpec == StartupInit /\ [][StartupNext]_vars

\* ----------------------------------------------------------- TmuxWrapper
\* The driver alone: sessions created and killed, with every reply tmux can
\* give to a kill-session.

TmuxCreate(n, fault) ==
    LET c == create_session(procs, n, fault)
    IN /\ Idle
       /\ procs' = c.procs
       /\ calls' = <<Call("create_session", n, <<>>, 0, c.ok, <<>>)>>
       /\ result' = [Result("create_session", "", n) EXCEPT
                        !.success = c.ok,
                        !.raised = IF c.ok THEN "" ELSE "TmuxError"]
       /\ UNCHANGED <<sessions, disk, logdir, tmp, writer>>

TmuxKill(n, r) ==
    LET k == kill_session_on(procs, n, r)
    IN /\ Idle
       /\ procs' = k.procs
       /\ calls' = <<Call("kill_session", n,
                          IF r.timeout THEN <<"timeout">> ELSE <<>>,
                          r.rc, k.ok, r.stderr)>>
       /\ result' = [Result("kill_session", "", n) EXCEPT
                        !.success = k.ok,
                        !.raised = IF k.ok THEN "" ELSE "TmuxError"]
       /\ UNCHANGED <<sessions, disk, logdir, tmp, writer>>

DriverNext ==
    \/ \E n \in SessionNames, fault \in BOOLEAN : TmuxCreate(n, fault)
    \/ \E n \in SessionNames : \E r \in KillReplies(procs, n) : TmuxKill(n, r)
    \/ Respond

DriverSpec == Init /\ [][DriverNext]_vars

\* ----------------------------------------------------- _save_state by steps
\* The StateManager alone, with _save_state taken one system call at a time
\* and the writing process killed between any two of them.

SavePcs == {"mkstemp", "write", "chmod", "replace"}

CrashInit ==
    /\ sessions = <<>>
    /\ disk = NoFile
    /\ procs = {}
    /\ logdir = FALSE
    /\ calls = <<>>
    /\ result = Result("idle", "", NoName)
    /\ tmp = NoFile
    /\ writer = Writer("dead", NoFile, NoFile, "")

\* add_session up to its call of _save_state
BeginAdd(n, cc, now) ==
    /\ writer.pc = "idle"
    /\ n \notin Names(sessions)
    /\ sessions' = Append(sessions,
                          SessionState(n, cc, n, get_log_file_path(n), NoTime, now))
    /\ writer' = Writer("mkstemp", disk, FileOf(StateData(sessions')), "")
    /\ UNCHANGED <<disk, tmp, procs, logdir, calls, result>>

\* remove_session up to its call of _save_state
BeginRemove(n) ==
    /\ writer.pc = "idle"
    /\ n \in Names(sessions)
    /\ sessions' = Without(sessions, n)
    /\ writer' = Writer("mkstemp", disk, FileOf(StateData(sessions')), "")
    /\ UNCHANGED <<disk, tmp, procs, logdir, calls, result>>

\* the state file itself opened for writing
SaveMkstemp_in_place ==
    /\ writer.pc = "mkstemp"
    /\ disk' = PartOf(writer.post.data)
    /\ tmp' = PartOf(writer.post.data)
    /\ writer' = [writer EXCEPT !.pc = "write"]
    /\ UNCHANGED <<sessions, procs, logdir, calls, result>>

\* os.makedirs and tempfile.mkstemp: an empty temporary file beside the
\* state file
SaveMkstemp ==
    /\ writer.pc = "mkstemp"
    /\ tmp' = PartOf(writer.post.data)
    /\ writer' = [writer EXCEPT !.pc = "write"]
    /\ UNCHANGED <<sessions, disk, procs, logdir, calls, result>>

\* json.dump into the temporary file and the close that ends the with block
SaveWrite ==
    /\ writer.pc = "write"
    /\ tmp' = FileOf(writer.post.data)
    /\ writer' = [writer EXCEPT !.pc = "chmod"]
    /\ UNCHANGED <<sessions, disk, procs, logdir, calls, result>>

\* os.chmod(temp_path, 0o600)
SaveChmod ==
    /\ writer.pc = "chmod"
    /\ writer' = [writer EXCEPT !.pc = "replace"]
    /\ UNCHANGED <<sessions, disk, tmp, procs, logdir, calls, result>>

\* the temporary file copied onto the state file and left where it is
SaveReplace_copying ==
    /\ writer.pc = "replace"
    /\ disk' = tmp
    /\ calls' = <<>>
    /\ writer' = Writer("idle", disk', disk', writer.killedAt)
    /\ UNCHANGED <<sessions, tmp, procs, logdir, result>>

\* os.replace(temp_path, self.state_path); the call returns without an unlink
SaveReplace ==
    /\ writer.pc = "replace"
    /\ disk' = tmp
    /\ tmp' = NoFile
    /\ calls' = <<>>
    /\ writer' = Writer("idle", disk', disk', writer.killedAt)
    /\ UNCHANGED <<sessions, procs, logdir, result>>

\* the system call at hand raises: when mkstemp has returned, the except
\* clause unlinks the temporary file (an unlink that fails is passed over);
\* then StateError is raised. calls keeps the unlink and its outcome.
SaveFails(unlinkOk) ==
    /\ writer.pc \in SavePcs
    /\ IF writer.pc = "mkstemp"
       THEN /\ tmp' = tmp
            /\ calls' = <<>>
       ELSE /\ tmp' = IF unlinkOk THEN NoFile ELSE tmp
            /\ calls' = <<Call("unlink", NoName, <<>>, 0, unlinkOk, <<>>)>>
    /\ writer' = Writer("idle", disk, disk, writer.killedAt)
    /\ UNCHANGED <<sessions, disk, procs, logdir, result>>

\* the process is killed inside _save_state
Kill ==
    /\ writer.pc \in SavePcs
    /\ writer' = [writer EXCEPT !.pc = "dead", !.killedAt = writer.pc]
    /\ UNCHANGED <<sessions, disk, tmp, procs, logdir, calls, result>>

\* a new process: StateManager.__init__ and _load_state
FreshLoad ==
    /\ writer.pc = "dead"
    /\ IF ~disk.exists
       THEN /\ sessions' = <<>>
            /\ writer' = [writer EXCEPT !.pc = "mkstemp", !.pre = disk,
                                        !.post = FileOf(StateData(<<>>))]
       ELSE IF ~disk.complete
       THEN /\ sessions' = <<>>
            /\ writer' = Writer("load_failed", disk, disk, writer.killedAt)
       ELSE /\ sessions' = Parse(disk.data, LaterTime)
            /\ writer' = Writer("idle", disk, disk, writer.killedAt)
    /\ UNCHANGED <<disk, tmp, procs, logdir, calls, result>>

CrashNext ==
    \/ \E n \in OpenableNames, cc \in KnownProfiles, now \in Times :
          BeginAdd(n, cc, now)
    \/ \E n \in OpenableNames : BeginRemove(n)
    \/ SaveMkstemp
    \/ SaveWrite
    \/ SaveChmod
    \/ SaveReplace
    \/ \E unlinkOk \in BOOLEAN : SaveFails(unlinkOk)
    \/ Kill
    \/ FreshLoad

CrashSpec == CrashInit /\ [][CrashNext]_vars

\* ------------------------------------------------------- handle_call_tool
\* Several tool calls in flight in one server process. Each call is a task
\* of the asyncio event loop running handle_call_tool; writer is the task
\* that holds the loop (0: none), result[t] is where task t stands in the
\* body: queued, checked (the registry check passed), driven (the tmux
\* calls and the settle time are over), done.

Tasks == {1, 2}

NoTask == [pc |-> "none", op |-> "", profile |-> "", name |-> NoName]

\* the positions in the body at which the coroutine awaits and so hands the
\* loop to another task: handle_call_tool and the tools have no await, the
\* settle time is a blocking time.sleep
AwaitPoints_settling == {"driven"}

AwaitPoints == {}

ServeInit ==
    /\ sessions = <<>>
    /\ disk = FileOf(StateData(<<>>))
    /\ procs = {}
    /\ logdir = FALSE
    /\ calls = <<>>
    /\ result = [t \in Tasks |-> NoTask]
    /\ tmp = NoFile
    /\ writer = 0

\* the task that stands at pc2 after its step keeps the loop unless pc2 is
\* an await or the end of the body
Release(t, pc2) == IF pc2 \in AwaitPoints \cup {"done"} THEN 0 ELSE t

\* a tools/call request arrives and the library creates a task for it
Arrive(t, op, p, n) ==
    /\ result[t].pc = "none"
    /\ result' = [result EXCEPT
                    ![t] = [pc |-> "queued", op |-> op, profile |-> p,
                            name |-> n]]
    /\ UNCHANGED <<sessions, disk, procs, logdir, calls, tmp, writer>>

\* the loop, held by no task, runs a task that is ready
Pick(t) ==
    /\ writer = 0
    /\ result[t].pc \in {"queued", "checked", "driven"}
    /\ writer' = t
    /\ UNCHANGED <<sessions, disk, procs, logdir, calls, result, tmp>>

\* step 3 of open_connection, step 1 of close_connection: session_exists
StepCheck(t) ==
    LET c == result[t]
        known == state_session_exists(sessions, c.name)
        pass == IF c.op = "open_connection" THEN ~known ELSE known
        pc2 == IF pass THEN "checked" ELSE "done"
    IN /\ writer = t
       /\ c.pc = "queued"
       /\ result' = [result EXCEPT ![t].pc = pc2]
       /\ writer' = Release(t, pc2)
       /\ UNCHANGED <<sessions, disk, procs, logdir, calls, tmp>>

\* the tmux calls: create_session and the setup up to the settle time, or
\* kill_session
StepDriver(t) ==
    LET c == result[t]
        cr == create_session(procs, c.name, FALSE)
        k == kill_session(procs, c.name, FALSE)
        pc2 == IF c.op = "open_connection" /\ ~cr.ok THEN "done" ELSE "driven"
    IN /\ writer = t
       /\ c.pc = "checked"
       /\ procs' = IF c.op = "open_connection" THEN cr.procs ELSE k.procs
       /\ logdir' = (logdir \/ c.op = "open_connection")
       /\ result' = [result EXCEPT ![t].pc = pc2]
       /\ writer' = Release(t, pc2)
       /\ UNCHANGED <<sessions, disk, calls, tmp>>

\* add_session, with the kill_session that follows when it raises, or
\* remove_session
StepWrite(t, ioFail) ==
    LET c == result[t]
        a == add_session(sessions, disk, c.name, c.profile, c.name,
                         get_log_file_path(c.name), LaterTime, ioFail)
        rm == remove_session(sessions, disk, c.name, ioFail)
    IN /\ writer = t
       /\ c.pc = "driven"
       /\ IF c.op = "open_connection"
          THEN /\ sessions' = a.sessions
               /\ disk' = a.disk
               /\ procs' = IF a.raised
                           THEN kill_session(procs, c.name, FALSE).procs
                           ELSE procs
          ELSE /\ sessions' = rm.sessions
               /\ disk' = rm.disk
               /\ procs' = procs
       /\ result' = [result EXCEPT ![t].pc = "done"]
       /\ writer' = Release(t, "done")
       /\ UNCHANGED <<logdir, calls, tmp>>

\* the result goes back to the client and the task ends
Reply(t) ==
    /\ result[t].pc = "done"
    /\ result' = [result EXCEPT ![t] = NoTask]
    /\ UNCHANGED <<sessions, disk, procs, logdir, calls, tmp, writer>>

ServeNext ==
    \/ \E t \in Tasks, op \in {"open_connection", "close_connection"},
          p \in KnownProfiles, n \in OpenableNames : Arrive(t, op, p, n)
    \/ \E t \in Tasks : Pick(t)
    \/ \E t \in Tasks : StepCheck(t)
    \/ \E t \in Tasks : StepDriver(t)
    \/ \E t \in Tasks, ioFail \in BOOLEAN : StepWrite(t, ioFail)
    \/ \E t \in Tasks : Reply(t)

ServeSpec == ServeInit /\ [][ServeNext]_vars

\* ------------------------------------------------- StateManager by itself
\* One StateManager whose add_session and remove_session are called with any
\* identity, recorded or not; result is the last call and how it ended.

RegistryCall(op, n, cc, o) ==
    [op |-> op, name |-> n, profile |-> cc, raised |-> o.raised,
     saves |-> o.saves]

RegistryInit ==
    /\ sessions = <<>>
    /\ disk = FileOf(StateData(<<>>))
    /\ procs = {}
    /\ logdir = FALSE
    /\ calls = <<>>
    /\ result = RegistryCall("", NoName, "", [raised |-> FALSE, saves |-> 0])
    /\ tmp = NoFile
    /\ writer = Writer("idle", disk, disk, "")

RegistryAdd(n, cc, now, ioFail) ==
    LET a == add_session(sessions, disk, n, cc, n, get_log_file_path(n), now,
                         ioFail)
    IN /\ sessions' = a.sessions
       /\ disk' = a.disk
       /\ result' = RegistryCall("add_session", n, cc, a)
       /\ UNCHANGED <<procs, logdir, calls, tmp, writer>>

RegistryRemove(n, ioFail) ==
    LET rm == remove_session(sessions, disk, n, ioFail)
    IN /\ sessions' = rm.sessions
       /\ disk' = rm.disk
       /\ result' = RegistryCall("remove_session", n, "", rm)
       /\ UNCHANGED <<procs, logdir, calls, tmp, writer>>

\* a new StateManager on the same file
RegistryLoad ==
    LET o == load_state(disk, LaterTime, FALSE)
    IN /\ sessions' = o.sessions
       /\ disk' = o.disk
       /\ result' = RegistryCall("__init__", NoName, "",
                                 [raised |-> o.raised, saves |-> 0])
       /\ UNCHANGED <<procs, logdir, calls, tmp, writer>>

RegistryNext ==
    \/ \E n \in OpenableNames, cc \in KnownProfiles, now \in Times,
          ioFail \in BOOLEAN : RegistryAdd(n, cc, now, ioFail)
    \/ \E n \in OpenableNames, ioFail \in BOOLEAN : RegistryRemove(n, ioFail)
    \/ RegistryLoad

RegistrySpec == RegistryInit /\ [][RegistryNext]_vars

\* ------------------------------------------ a registry of an earlier process
\* The server started on a state file that an earlier server process wrote
\* while the configuration file still held the profile 'ghost'; the
\* configuration of the running process is connections.

EarlierProfiles == ProfileNames

EarlierRegistries ==
    LET rec(n, p) == SessionState(n, p, n, get_log_file_path(n), 1, 1)
        one == {<<rec(n, p)>> : n \in OpenableNames, p \in EarlierProfiles}
        two == {a \o b : a \in one, b \in one}
    IN {<<>>} \cup one
       \cup {r \in two : r[1].session_name # r[2].session_name}

\* main() has constructed StateManager on the file it found
ReloadInit ==
    /\ disk \in {FileOf(StateData(S)) : S \in EarlierRegistries}
    /\ sessions = load_state(disk, LaterTime, FALSE).sessions
    /\ procs = {}
    /\ logdir = TRUE
    /\ calls = <<>>
    /\ result = Result("idle", "", NoName)
    /\ tmp = NoFile
    /\ writer = Writer("idle", disk, disk, "")

\* the tools that read or remove what was loaded
ReloadNext ==
    \/ \E failIdx \in 0..Len(sessions) : ListConnections(failIdx)
    \/ \E n \in SessionNames, fault \in BOOLEAN : GetSessionStatus(n, fault)
    \/ \E n \in SessionNames, killFault \in BOOLEAN, ioFail \in BOOLEAN :
          CloseConnection(n, killFault, ioFail)
    \/ Respond

ReloadSpec == ReloadInit /\ [][ReloadNext]_vars

\* ------------------------------------------------------------------- claims

\* the identities that have a record in the state file
DiskNames(D) ==
    IF D.exists THEN {D.data.sessions[k].key : k \in DOMAIN D.data.sessions}
    ELSE {}

\* C has a call of fn that succeeded
Called(C, fn) == \E k \in DOMAIN C : C[k].fn = fn /\ C[k].ok

\* the calls of C that reach a pane: input sent, or its text read
PaneCalls(C) ==
    {k \in DOMAIN C : C[k].fn \in {"send_keys", "send_ctrl_c", "capture_pane"}}

\* the has-session of the last operation answered, and what it answered
ProbeAnswered == \E k \in DOMAIN calls : calls[k].fn = "has_session" /\ calls[k].ok

\* C1: when open_connection fails at any step from the allocation of the
\* process to the registry write, then once it has returned no process of
\* that identity is left and neither the in-memory registry nor the state
\* file holds a record of that identity.
C1_RollbackComplete ==
    (result.op = "open_connection" /\ ~result.success /\ calls # <<>>)
        => /\ result.name \notin procs
           /\ result.name \notin Names(sessions)
           /\ result.name \notin DiskNames(disk)

\* C2: between operations every live process this system allocated has a
\* record in the registry, and close_connection never returns success while
\* the process it was asked to close still runs.
C2_NoProcessWithoutRecord ==
    /\ \A n \in procs : n \in Names(sessions) /\ n \in DiskNames(disk)
    /\ (result.op = "close_connection" /\ result.success)
          => result.name \notin procs

\* C3: an open_connection with any known profile for an identity that has a
\* record fails with the 'already exists' error, makes no driver call,
\* creates and tears down no process and leaves the registry as it was.
C3_SecondOpenConflicts ==
    [][ (result'.op = "open_connection" /\ result'.profile \in KnownProfiles
            /\ result'.name \in Names(sessions))
        => /\ ~result'.success
           /\ result'.error = "already exists"
           /\ calls' = <<>>
           /\ procs' = procs
           /\ sessions' = sessions
           /\ disk' = disk ]_vars

\* a second open under another profile than the record's was refused while
\* the process of the first was running
C3_Witness ==
    /\ result.op = "open_connection"
    /\ result.error = "already exists"
    /\ result.name \in procs
    /\ result.name \in DiskNames(disk)
    /\ get_session(sessions, result.name).connection_config # result.profile

\* the whole setup protocol for n is in C: allocated, history configured, ssh
\* command and Enter sent, logging attached, and a capture that succeeded
\* and shows none of the failure signatures
FullProtocol(C, n) ==
    /\ \A k \in DOMAIN C : C[k].fn # "sleep" => C[k].target = n
    /\ Called(C, "create_session")
    /\ \E k \in DOMAIN C : /\ C[k].fn = "set_history_limit" /\ C[k].ok
                           /\ C[k].num = HISTORY_LIMIT
    /\ \E k \in DOMAIN C : /\ C[k].fn = "send_keys" /\ C[k].ok
                           /\ C[k].arg[1] = "ssh"
    /\ \E k \in DOMAIN C : /\ C[k].fn = "send_keys" /\ C[k].ok
                           /\ C[k].arg = <<"Enter">>
    /\ Called(C, "start_logging")
    /\ \E k \in DOMAIN C :
          /\ C[k].fn = "capture_pane" /\ C[k].ok
          /\ \A j \in DOMAIN error_patterns :
                ~Contains(Lower(C[k].ret), error_patterns[j])

\* C4: an identity that has a record neither in memory nor in the state
\* file gets one only in an open_connection step for that identity in which
\* the whole setup protocol succeeded; the in-memory registry gains a record
\* otherwise only when the state file is read at a restart, and the state
\* file holds only identities the in-memory registry holds at that write.
C4_RecordOnlyAfterProtocol ==
    [][ \A n \in SessionNames :
          /\ (n \notin Names(sessions) \cup DiskNames(disk)
                /\ n \in Names(sessions') \cup DiskNames(disk'))
             => /\ result'.op = "open_connection"
                /\ result'.name = n
                /\ FullProtocol(calls', n)
          /\ (n \notin Names(sessions) /\ n \in Names(sessions'))
             => \/ result'.op = "open_connection" /\ result'.name = n
                \/ n \in DiskNames(disk) /\ result' = result
          /\ (n \notin DiskNames(disk) /\ n \in DiskNames(disk'))
             => n \in Names(sessions') ]_vars

\* an open_connection committed a record
C4_Witness ==
    /\ result.op = "open_connection"
    /\ result.success
    /\ result.name \in Names(sessions)
    /\ result.name \in DiskNames(disk)
    /\ FullProtocol(calls, result.name)

\* C5: when the rewrite of the state file fails in add_session or
\* remove_session, the in-memory sessions are what they were before the call.
C5_FailedWriteLeavesMemory ==
    [][ (result'.error = "Failed to update state"
            \/ result'.detail = "Failed to save state")
        => sessions' = sessions /\ disk' = disk ]_vars

\* C6: whenever the writer is killed inside _save_state, the state file is
\* the complete file from before the rewrite or the complete file the
\* rewrite produces, never a part of one, and the load of a new StateManager
\* does not fail.
C6_SnapshotAtomic ==
    /\ disk.exists => disk.complete
    /\ disk \in {writer.pre, writer.post}
    /\ writer.pc # "load_failed"

\* a writer was killed while it wrote the temporary file, and a new
\* StateManager has loaded the records of the file from before
C6_Witness ==
    /\ writer.pc = "idle"
    /\ writer.killedAt = "write"
    /\ tmp.exists /\ ~tmp.complete
    /\ tmp.data # disk.data
    /\ Len(sessions) > 0
    /\ StateData(sessions) = disk.data

\* C7: after a successful add of a record, a new StateManager on the same
\* file holds a record of that identity with the same session name, profile
\* name, process handle, log path and creation timestamp, and holds every
\* record the registry held before the add, unchanged.
C7_RoundTrip ==
    [][ (result'.op = "open_connection" /\ result'.success)
        => LET n == result'.name
               fresh == load_state(disk', LaterTime, FALSE)
               rec == get_session(fresh.sessions, n)
           IN /\ ~fresh.raised
              /\ n \in Names(fresh.sessions)
              /\ rec = get_session(sessions', n)
              /\ rec.session_name = n
              /\ rec.connection_config = result'.profile
              /\ rec.tmux_session = n
              /\ rec.log_file = get_log_file_path(n)
              /\ rec.created_at \in Times
              /\ \A k \in DOMAIN sessions :
                    \E j \in DOMAIN fresh.sessions :
                        fresh.sessions[j] = sessions[k] ]_vars

\* a record was added to a registry that held another one
C7_Witness ==
    /\ result.op = "open_connection"
    /\ result.success
    /\ Len(sessions) = 2
    /\ sessions[1].connection_config # sessions[2].connection_config
    /\ Len(disk.data.sessions) = 2

\* C8: get_session_status gives 'not_found' for an identity without a
\* record, whether a process of that name runs or not, and without asking
\* the driver; for an identity with a record it gives 'active' when the
\* driver reports the process and 'disconnected' when it reports none.
C8_StatusTable ==
    result.op = "get_session_status"
    => LET n == result.name
       IN /\ n \notin Names(sessions)
             => /\ result.status = "not_found"
                /\ result.raised = ""
                /\ calls = <<>>
          /\ (n \in Names(sessions) /\ ProbeAnswered)
             => /\ result.raised = ""
                /\ result.status = IF n \in procs THEN "active"
                                   ELSE "disconnected"
          /\ (n \in Names(sessions) /\ ~ProbeAnswered)
             => result.raised = "TmuxError" /\ result.status = ""

\* the status of an identity without a record whose name a live process bears
C8_Witness ==
    /\ result.op = "get_session_status"
    /\ result.name \notin Names(sessions)
    /\ result.name \in procs
    /\ result.status = "not_found"

ReadOnlyOps ==
    {"list_connections", "get_session_status", "execute_command",
     "get_terminal_output", "interrupt_command"}

\* C9: list_connections, get_session_status, execute_command,
\* get_terminal_output and interrupt_command leave the in-memory registry and
\* the state file as they were, whatever their outcome; a record whose
\* process has gone is listed as 'disconnected' and refused as not active
\* whenever the driver answers, and it stays.
C9_ReadOnlyOpsKeepRegistry ==
    [][ result'.op \in ReadOnlyOps
        => /\ sessions' = sessions
           /\ disk' = disk
           /\ (result'.op = "list_connections" /\ result'.raised = "")
              => /\ Len(result'.listing) = Len(sessions)
                 /\ \A k \in DOMAIN sessions :
                      /\ result'.listing[k].session_name = sessions[k].session_name
                      /\ result'.listing[k].status =
                           IF sessions[k].session_name \in procs
                           THEN "active" ELSE "disconnected"
           /\ (/\ result'.op \in {"execute_command", "get_terminal_output",
                                  "interrupt_command"}
               /\ result'.name \in Names(sessions)
               /\ result'.name \notin procs
               /\ ProbeAnswered')
              => ~result'.success /\ result'.error = "Session is not active"
       ]_vars

\* execute_command on a record whose process died: refused, record kept
C9_Witness ==
    /\ result.op = "execute_command"
    /\ result.error = "Session is not active"
    /\ result.name \in Names(sessions)
    /\ result.name \in DiskNames(disk)
    /\ result.name \notin procs

\* C10: execute_command, get_terminal_output and interrupt_command reach
\* the pane of identity i (send keys, send Ctrl+C, capture) only when i has a
\* record and the driver has reported its process alive; without a record
\* they fail as not found and call no driver; with a record whose process
\* the driver reports gone they fail as not active; in both cases nothing is
\* sent.
C10_PaneOnlyWhenActive ==
    result.op \in {"execute_command", "get_terminal_output", "interrupt_command"}
    => LET n == result.name
       IN /\ PaneCalls(calls) # {}
             => /\ n \in Names(sessions)
                /\ n \in procs
                /\ calls[1].fn = "has_session" /\ calls[1].ok
                /\ \A k \in PaneCalls(calls) : k > 1 /\ calls[k].target = n
          /\ n \notin Names(sessions)
             => /\ ~result.success
                /\ result.error = "Session not found"
                /\ calls = <<>>
          /\ (n \in Names(sessions) /\ n \notin procs)
             => /\ ~result.success
                /\ PaneCalls(calls) = {}
                /\ ProbeAnswered => result.error = "Session is not active"
          /\ result.success
             => /\ PaneCalls(calls) # {}
                /\ \A k \in DOMAIN calls : calls[k].ok

\* a tool was refused as not found although a process of that name runs
C10_Witness ==
    /\ result.op = "interrupt_command"
    /\ result.error = "Session not found"
    /\ result.name \in procs
    /\ calls = <<>>

\* C11: the first close_connection of an identity that has a record kills
\* its process, removes the record from memory and from the state file and
\* returns success; a close_connection of an identity without a record (a
\* second close, or a name never opened) fails as not found, calls no
\* kill-session and changes nothing.
C11_CloseOnceThenNotFound ==
    [][ result'.op = "close_connection"
        => LET n == result'.name
           IN IF n \in Names(sessions)
              THEN /\ result'.success
                   /\ n \notin procs'
                   /\ n \notin Names(sessions')
                   /\ n \notin DiskNames(disk')
              ELSE /\ ~result'.success
                   /\ result'.error = "Session not found"
                   /\ calls' = <<>>
                   /\ sessions' = sessions /\ disk' = disk /\ procs' = procs
       ]_vars

\* the index of the first signature of error_patterns that the text holds,
\* whatever the case of its letters; 0 when it holds none
FirstSignature(text) ==
    LET hits == {j \in DOMAIN error_patterns :
                    Contains(Lower(text), error_patterns[j])}
    IN IF hits = {} THEN 0
       ELSE CHOOSE j \in hits : \A h \in hits : j <= h

\* C12: when the pane text captured for verification holds a failure
\* signature, open_connection fails with the error that names the first
\* signature of the list that it holds, the process is gone and memory and
\* state file are as they were; when it holds none, open_connection goes on
\* to add_session.
C12_SignatureRejects ==
    [][ (/\ result'.op = "open_connection"
         /\ \E k \in DOMAIN calls' :
               calls'[k].fn = "capture_pane" /\ calls'[k].ok)
        => LET n == result'.name
               k == CHOOSE k \in DOMAIN calls' : calls'[k].fn = "capture_pane"
               sig == FirstSignature(calls'[k].ret)
           IN IF sig # 0
              THEN /\ ~result'.success
                   /\ result'.error = "SSH connection failed"
                   /\ result'.pattern = error_patterns[sig]
                   /\ n \notin procs'
                   /\ sessions' = sessions /\ disk' = disk
              ELSE result'.success \/ result'.error = "Failed to update state"
       ]_vars

\* C13: after an open_connection whose add_session write failed, the
\* process is gone, the call has reported failure, get_session_status of the
\* identity is 'not_found', list_connections does not show it, and the same
\* open_connection made again is not refused as 'already exists'.
C13_FailedCommitRestores ==
    (result.op = "open_connection" /\ result.error = "Failed to update state")
    => LET n == result.name
           again == open_connection(sessions, disk, procs, logdir,
                                    result.profile, n, "none", 0,
                                    <<"Welcome">>, 1)
           shown == list_connections(sessions, procs, 0).listing
       IN /\ ~result.success
          /\ n \notin procs
          /\ get_session_status(sessions, procs, n, FALSE).status = "not_found"
          /\ \A k \in DOMAIN shown : shown[k].session_name # n
          /\ again.error # "already exists"

\* a session name of one or more characters, each a letter, a digit, an
\* underscore or a hyphen
InCharacterSet(n) ==
    Len(n) > 0 /\ \A k \in DOMAIN n : n[k] \in AllowedChars

\* C14: an open_connection with a session name outside the character set
\* fails as an invalid session name whatever the profile, known or not; one
\* with a name inside it and an unknown profile fails as config not found,
\* also when the name has a record.
C14_ValidationOrder ==
    result.op = "open_connection"
    => /\ ~InCharacterSet(result.name)
          => result.error = "Invalid session name"
       /\ (InCharacterSet(result.name) /\ result.profile \notin KnownProfiles)
          => result.error = "Connection config not found"

\* C15: with a known profile and a session name that has no record,
\* open_connection gets past the name check exactly when the name is one or
\* more letters, digits, underscores or hyphens; every other name, a
\* newline as last character included, is refused as invalid with no driver
\* call.
C15_IdentityCharacterSet ==
    [][ (/\ result'.op = "open_connection"
         /\ result'.profile \in KnownProfiles
         /\ result'.name \notin Names(sessions))
        => IF InCharacterSet(result'.name)
           THEN result'.error # "Invalid session name"
           ELSE result'.error = "Invalid session name" /\ calls' = <<>>
       ]_vars

RequestedErrors ==
    {"Invalid session name", "Connection config not found", "already exists"}

\* C16: an open_connection with an unknown profile, a session name outside
\* the character set or a name that has a record fails with one of the three
\* errors of the first checks, makes no driver call, creates no process and
\* no log directory and leaves memory and state file as they were; for an
\* unknown profile the error lists every configured profile name.
C16_RequestedStepRejects ==
    [][ (/\ result'.op = "open_connection"
         /\ \/ result'.profile \notin KnownProfiles
            \/ ~InCharacterSet(result'.name)
            \/ result'.name \in Names(sessions))
        => /\ ~result'.success
           /\ result'.error \in RequestedErrors
           /\ calls' = <<>>
           /\ procs' = procs /\ logdir' = logdir
           /\ sessions' = sessions /\ disk' = disk
           /\ result'.profile \notin KnownProfiles
              => /\ result'.error = "Connection config not found"
                 /\ result'.available = KnownProfiles
       ]_vars

\* an unknown profile refused, with the configured names listed, while the
\* identity asked for has a record and a running process
C16_Witness ==
    /\ result.op = "open_connection"
    /\ result.error = "Connection config not found"
    /\ result.available = {"prof-x", "prof-y"}
    /\ result.name \in Names(sessions)
    /\ result.name \in procs
    /\ calls = <<>>

ToolOps ==
    {"open_connection", "close_connection", "list_connections",
     "execute_command", "get_terminal_output", "interrupt_command",
     "list_available_configs"}

\* C17: every tool returns a dict, whatever was raised inside it: a session
\* error, a driver error or timeout, a state write error, or the error of a
\* kill-session made while rolling back; what was raised is reported under
\* 'error' and nothing leaves the tool function as an exception.
C17_ToolsReturnResults ==
    result.op \in ToolOps
    => /\ result.keys # {}
       /\ result.raised # "" => "error" \in result.keys /\ ~result.success

\* the kill-session of a rollback failed, and open_connection_tool returned
\* a result all the same
C17_Witness ==
    /\ result.op = "open_connection"
    /\ result.raised = "TmuxError"
    /\ result.error = "Unexpected error"
    /\ result.keys = {"success", "error"}
    /\ result.name \in procs

\* C18: every response has the key 'success', true on success and false on
\* failure, and every failure response has the key 'error'; so for
\* list_connections, list_available_configs and an unknown tool name too.
C18_SuccessFlagEverywhere ==
    result.op \in ToolOps \cup {"unknown_tool"}
    => /\ "success" \in result.keys
       /\ ~result.success => "error" \in result.keys
       /\ "error" \in result.keys => ~result.success

\* the profiles with key path and password blanked
Redacted(conns) ==
    [p \in DOMAIN conns |->
        [conns[p] EXCEPT !.key_path = "", !.password = ""]]

\* the key paths and passwords of the configuration
Secrets ==
    ({connections[p].key_path : p \in DOMAIN connections}
        \cup {connections[p].password : p \in DOMAIN connections}) \ {""}

C20_ListMatchesRegistry ==
    [][ result'.op = "list_connections"
        => /\ sessions = <<>>
              => /\ result'.listing = <<>> /\ result'.total = 0
                 /\ result'.keys = {"sessions", "total"}
                 /\ calls' = <<>>
           /\ "error" \notin result'.keys
              => /\ Len(result'.listing) = Len(sessions)
                 /\ result'.total = Len(result'.listing)
                 /\ Len(calls') = Len(sessions)
                 /\ \A k \in DOMAIN sessions :
                      LET e == result'.listing[k]
                      IN /\ e.session_name = sessions[k].session_name
                         /\ e.connection_config = sessions[k].connection_config
                         /\ e.status \in {"active", "disconnected"}
                         /\ e.status = "active" <=> e.session_name \in procs
                         /\ calls'[k].fn = "has_session"
                         /\ calls'[k].target = e.session_name
       ]_vars

\* two records listed in the order they were added, the first without
\* process, the second with one
C20_Witness ==
    /\ result.op = "list_connections"
    /\ result.total = 2
    /\ Len(sessions) = 2
    /\ result.listing[1].session_name = sessions[1].session_name
    /\ result.listing[1].status = "disconnected"
    /\ result.listing[2].status = "active"

\* C21: a kill_session for a name of which tmux has no session, answered
\* by tmux with the report that there is none, returns without raising and leaves the live
\* sessions as they are, so a second kill after a first reports success;
\* kill_session raises only on a timeout or on a failure other than the
\* session not being there.
C21_TeardownIdempotent ==
    [][ result'.op = "kill_session"
        => LET c == calls'[1]
               timedOut == c.arg = <<"timeout">>
           IN /\ (result'.name \notin procs /\ ~timedOut
                    /\ c.ret \in AbsentStderr)
                 => /\ result'.raised = "" /\ result'.success
                    /\ procs' = procs
              /\ result'.raised # ""
                 => timedOut \/ (c.num # 0 /\ c.ret \notin AbsentStderr)
       ]_vars

\* C22: main() ends the process only when the configuration cannot be
\* loaded or tmux is not installed; a state file that cannot be read or
\* parsed, or that cannot be written, does not end it.
C22_FatalOnlyConfigOrTmux ==
    (result.op = "main" /\ result.status = "exit")
    => result.error \in {"Configuration error", "tmux is not installed"}

\* the driver calls of a whole open_connection, in the order of the code
ProtocolFns ==
    <<"create_session", "set_history_limit", "send_keys", "send_keys",
      "start_logging", "sleep", "capture_pane">>

\* C23: the driver calls of one open_connection are a beginning of the
\* sequence create, set history limit (200000), send the ssh command, send
\* Enter, start logging, sleep, capture, each made only after all before it
\* succeeded; memory and state file change only after all of them; a call
\* that fails after the create has kill-session exactly once, after the
\* step that failed, and a call that succeeds or fails at the create has
\* none.
C23_ProtocolOrder ==
    [][ (result'.op = "open_connection" /\ calls' # <<>>)
        => LET C == calls'
               steps == SelectSeq(C, LAMBDA c : c.fn # "kill_session")
               kills == {k \in DOMAIN C : C[k].fn = "kill_session"}
           IN /\ Len(steps) <= Len(ProtocolFns)
              /\ \A k \in DOMAIN steps :
                    /\ steps[k].fn = ProtocolFns[k]
                    /\ C[k] = steps[k]
                    /\ k < Len(steps) => steps[k].ok
                    /\ steps[k].fn = "set_history_limit"
                       => steps[k].num = HISTORY_LIMIT
              /\ (sessions' # sessions \/ disk' # disk)
                 => /\ Len(steps) = Len(ProtocolFns)
                    /\ \A k \in DOMAIN steps : steps[k].ok
              /\ Cardinality(kills) =
                    IF ~result'.success /\ C[1].ok THEN 1 ELSE 0
       ]_vars

\* C24: an open_connection ends either with success and the record of the
\* identity in memory and in the state file, or with an error and memory
\* and state file holding the records they held before; never success
\* without the record, never an error with the record added.
C24_CommittedOrFailed ==
    [][ result'.op = "open_connection"
        => IF result'.success
           THEN /\ result'.name \notin Names(sessions)
                /\ result'.name \in Names(sessions')
                /\ result'.name \in DiskNames(disk')
           ELSE /\ result'.error # ""
                /\ sessions' = sessions
                /\ disk' = disk
       ]_vars

\* C25: of two StateManager instances on one file, neither ever holds a
\* record that it did not find in the file when it was constructed or was
\* asked to add itself; and when each has added, without raising, an
\* identity that the other neither found nor was asked to add, the state
\* file, and so a new load of it, lacks one of the two identities.
C25_LostUpdate ==
    /\ \A m \in Managers :
          Names(sessions[m]) \subseteq result[m].loaded \cup result[m].tried
    /\ \A a \in result["A"].added, b \in result["B"].added :
          (/\ a \notin result["B"].loaded \cup result["B"].tried
           /\ b \notin result["A"].loaded \cup result["A"].tried)
          => /\ ~({a, b} \subseteq DiskNames(disk))
             /\ ~({a, b} \subseteq
                     Names(load_state(disk, LaterTime, FALSE).sessions))

\* both instances were constructed on the empty file, A added s1 and then
\* B added s2, both without raising: the file holds s2 alone
C25_Witness ==
    /\ result["A"] = [built |-> TRUE, loaded |-> {}, tried |-> {NameA},
                      added |-> {NameA}]
    /\ result["B"] = [built |-> TRUE, loaded |-> {}, tried |-> {NameB},
                      added |-> {NameB}]
    /\ DiskNames(disk) = {NameB}
    /\ Names(load_state(disk, LaterTime, FALSE).sessions) = {NameB}
    /\ Names(sessions["A"]) = {NameA}

C27_NoTempAfterFailure ==
    [][ LET ended == writer.pc \in {"write", "chmod", "replace"}
                     /\ writer'.pc = "idle"
            raised == calls' # <<>>
        IN /\ (ended /\ raised)
                 => ~tmp'.exists /\ disk' = disk /\ disk' = writer.pre
           /\ (ended /\ ~raised) => ~tmp'.exists
      ]_vars

\* C27, the cleanup being best effort: a _save_state that fails after its
\* temporary file was created leaves the state file as it was before the
\* call and tries to unlink the temporary file once; when that unlink
\* succeeds no temporary file remains, when it fails the file stays as the
\* call left it. A _save_state that succeeds has put its temporary file in
\* the place of the state file and leaves none behind.
C27_TempCleanedUp ==
    [][ LET ended == writer.pc \in {"write", "chmod", "replace"}
                     /\ writer'.pc = "idle"
            raised == calls' # <<>>
        IN /\ (ended /\ raised)
                 => /\ disk' = disk
                    /\ disk' = writer.pre
                    /\ Len(calls') = 1
                    /\ calls'[1].fn = "unlink"
                    /\ calls'[1].ok => ~tmp'.exists
                    /\ ~calls'[1].ok => tmp' = tmp
           /\ (ended /\ ~raised)
                 => ~tmp'.exists /\ disk' = writer.post /\ disk' = tmp
      ]_vars

C27_Witness ==
    /\ writer.pc = "idle"
    /\ Len(calls) = 1
    /\ calls[1].fn = "unlink"
    /\ calls[1].ok
    /\ ~tmp.exists
    /\ disk.exists
    /\ StateData(sessions) # disk.data

\* C28: an identity n that has a record in memory and in the state file and
\* whose tmux session is gone stays so in every step that is not a
\* close_connection(n), a restart included: the record is kept, no tmux
\* session n comes up, and an open_connection(p, n) with a known profile
\* fails with the identity conflict without a driver call. When a
\* close_connection(n) reports success the record is gone from memory and
\* from the file, and no open_connection(p, n) from there fails with the
\* identity conflict.
C28_StaleRecordBlocksUntilClose ==
    [][ \A n \in OpenableNames :
          LET stale == n \in Names(sessions) /\ n \in DiskNames(disk)
                       /\ n \notin procs
              closing == result'.op = "close_connection" /\ result'.name = n
          IN /\ (stale /\ ~closing)
                  => /\ n \in Names(sessions') /\ n \in DiskNames(disk')
                     /\ n \notin procs'
                     /\ (/\ result'.op = "open_connection"
                         /\ result'.name = n
                         /\ result'.profile \in KnownProfiles)
                           => /\ ~result'.success
                              /\ result'.error = "already exists"
                              /\ calls' = <<>>
             /\ (stale /\ closing /\ result'.success)
                  => /\ n \notin Names(sessions') /\ n \notin DiskNames(disk')
                     /\ n \notin procs'
                     /\ \A p \in KnownProfiles :
                          \A i \in OpenInputsFor(sessions', p, n) :
                             open_connection(sessions', disk', procs', logdir',
                                             p, n, i.failAt, i.kills, i.out,
                                             i.now).error # "already exists"
      ]_vars

\* an open was refused for an identity whose record is in memory and in the
\* file while its tmux session is gone
C28_Witness ==
    /\ result.op = "open_connection"
    /\ result.error = "already exists"
    /\ result.name \notin procs
    /\ result.name \in Names(sessions)
    /\ result.name \in DiskNames(disk)

\* C29: a close_connection(n) for an identity that has a record makes one
\* kill_session call and, whatever that call's outcome, either reports
\* success with the record gone from memory and from the file, or fails with
\* 'Failed to save state' and the file as it was; a close_connection fails
\* in no other way than with 'Session not found', when there is no record,
\* or with 'Failed to save state'.
C29_CloseIgnoresTeardownErrors ==
    [][ result'.op = "close_connection"
        => LET n == result'.name
               had == n \in Names(sessions)
               removed == n \notin Names(sessions') /\ n \notin DiskNames(disk')
               writeFailed == /\ result'.error = "Unexpected error"
                              /\ result'.detail = "Failed to save state"
                              /\ disk' = disk
           IN /\ had => /\ Len(calls') = 1
                        /\ calls'[1].fn = "kill_session"
                        /\ (result'.success /\ removed) \/ writeFailed
              /\ ~result'.success
                   => \/ ~had /\ result'.error = "Session not found"
                      \/ had /\ writeFailed
              /\ (had /\ n \notin procs /\ ~writeFailed)
                   => result'.success /\ removed
      ]_vars

\* a close reported success and removed the record although its
\* kill_session failed and the tmux session is still running
C29_Witness ==
    /\ result.op = "close_connection"
    /\ result.success
    /\ Len(calls) = 1
    /\ calls[1].fn = "kill_session"
    /\ ~calls[1].ok
    /\ result.name \in procs
    /\ result.name \notin Names(sessions)
    /\ result.name \notin DiskNames(disk)

\* C30: an open_connection kills only the tmux session it created itself:
\* every kill_session call it makes is for its own session name and follows
\* a create_session of the same call that succeeded while no tmux session
\* of that name was running; every tmux session that was running before the
\* call is running after it. When create_session fails, as it does when a
\* tmux session of that name is running without a record, the call fails
\* with 'Failed to create tmux session', makes no further driver call and
\* changes neither the tmux sessions nor the registry.
C30_NoTeardownWithoutAllocation ==
    [][ result'.op = "open_connection"
        => LET n == result'.name
               kills == {k \in DOMAIN calls' : calls'[k].fn = "kill_session"}
           IN /\ kills # {}
                   => /\ calls'[1].fn = "create_session"
                      /\ calls'[1].ok
                      /\ n \notin procs
                      /\ \A k \in kills : calls'[k].target = n
              /\ procs \subseteq procs'
              /\ (calls' # <<>> /\ ~calls'[1].ok)
                   => /\ calls'[1].fn = "create_session"
                      /\ Len(calls') = 1
                      /\ ~result'.success
                      /\ result'.error = "Failed to create tmux session"
                      /\ result'.raised = "SSHSessionError"
                      /\ procs' = procs
                      /\ sessions' = sessions /\ disk' = disk
              /\ (/\ result'.profile \in KnownProfiles
                  /\ ValidSessionName(n)
                  /\ n \notin Names(sessions)
                  /\ n \in procs)
                   => /\ result'.error = "Failed to create tmux session"
                      /\ kills = {}
                      /\ n \in procs'
      ]_vars

\* an open was refused by new-session because a tmux session of that name,
\* which has no record, was running; it still runs
C30_Witness ==
    /\ result.op = "open_connection"
    /\ result.error = "Failed to create tmux session"
    /\ Len(calls) = 1
    /\ result.name \in procs
    /\ result.name \notin Names(sessions)

\* the record open_connection(p, n) writes: tmux session named as the
\* session, log file <log directory>/<n>.log, profile p
WrittenByOpen(r, p, n) ==
    /\ r.session_name = n
    /\ r.connection_config = p
    /\ r.tmux_session = n
    /\ Len(r.log_file) = Len(n) + 3
    /\ r.log_file[1] = LOG_DIR
    /\ r.log_file[2] = "/"
    /\ SubSeq(r.log_file, 3, Len(n) + 2) = n
    /\ r.log_file[Len(r.log_file)] = ".log"

\* the records of a registry S, as a set
Records(S) == {S[k] : k \in DOMAIN S}

\* C31: every record in memory and every record a load of the state file
\* yields has its session name as tmux session, <log directory>/<name>.log
\* as log file and a profile of the configuration, and no two records of a
\* registry share a name (the name is the key of the map, in memory and in
\* the file); a record that an open_connection(p, n) adds carries p; and a
\* step puts no record into memory or file other than the one its
\* open_connection wrote, one that memory held, or one the file held.
C31_RecordShape ==
    /\ [](LET loaded == Parse(disk.data, LaterTime)
          IN /\ \A r \in Records(sessions) \cup Records(loaded) :
                   \E p \in KnownProfiles : WrittenByOpen(r, p, r.session_name)
             /\ Cardinality(Names(sessions)) = Len(sessions)
             /\ Cardinality(DiskNames(disk)) = Len(disk.data.sessions)
             /\ \A k \in DOMAIN loaded :
                   loaded[k].session_name = disk.data.sessions[k].key)
    /\ [][ LET old == Records(sessions) \cup Records(Parse(disk.data, LaterTime))
               new == (Records(sessions') \cup Records(Parse(disk'.data, LaterTime)))
                      \ old
           IN /\ new # {}
                  => /\ result'.op = "open_connection"
                     /\ result'.name \notin Names(sessions)
                     /\ \A r \in new :
                           WrittenByOpen(r, result'.profile, result'.name)
              /\ (result'.op = "open_connection" /\ result'.success)
                  => /\ WrittenByOpen(get_session(sessions', result'.name),
                                      result'.profile, result'.name)
                     /\ get_session(Parse(disk'.data, LaterTime), result'.name)
                          = get_session(sessions', result'.name)
         ]_vars

\* an open under the second profile has added its record next to one of the
\* first profile, and the file holds both
C31_Witness ==
    /\ result.op = "open_connection"
    /\ result.success
    /\ result.profile = "prof-y"
    /\ Len(sessions) = 2
    /\ get_session(sessions, result.name).connection_config = "prof-y"
    /\ get_session(sessions, result.name).tmux_session = result.name
    /\ Parse(disk.data, LaterTime) = sessions

\* C32: the send-keys calls of an execute_command are the command text and
\* then Enter, Enter only after the text went through; an execute_command
\* that reports success has delivered both, and one that reports failure
\* has delivered neither the text nor Enter.
C32_CommandAllOrNothing ==
    [][ result'.op = "execute_command"
        => LET sends == SelectSeq(calls', LAMBDA c : c.fn = "send_keys")
           IN /\ Len(sends) <= 2
              /\ Len(sends) >= 1 => sends[1].arg = result'.command
                                     \/ ~result'.success
              /\ Len(sends) = 2 => sends[1].ok /\ sends[2].arg = <<"Enter">>
              /\ result'.success
                   => Len(sends) = 2 /\ sends[1].ok /\ sends[2].ok
              /\ ~result'.success
                   => \A k \in DOMAIN sends : ~sends[k].ok
      ]_vars

\* C33: of the tool calls in flight in one server process at most one is
\* between its registry check and the end of its body, and that one holds
\* the event loop; what its check found still holds when it goes on (the
\* identity of an open_connection has no record, that of a close_connection
\* has one), so no other call's registry write falls between a call's check
\* and its own write.
C33_ToolCallsSerialized ==
    LET mid == {t \in Tasks : result[t].pc \in {"checked", "driven"}}
    IN /\ Cardinality(mid) <= 1
       /\ \A t \in mid :
             /\ writer = t
             /\ result[t].op = "open_connection"
                  => result[t].name \notin Names(sessions)
             /\ result[t].op = "close_connection"
                  => result[t].name \in Names(sessions)

\* an open_connection is past its tmux calls, about to write, while a
\* second open_connection for the same identity has arrived and waits
C33_Witness ==
    /\ result[1].pc = "driven"
    /\ result[1].op = "open_connection"
    /\ result[2].pc = "queued"
    /\ result[2].op = "open_connection"
    /\ result[2].name = result[1].name
    /\ writer = 1

\* C34: an add_session for an identity that has a record raises StateError
\* without a rewrite of the file and leaves memory, the record of that
\* identity included, and the file as they were; a remove_session for an
\* identity that has no record raises nothing, rewrites nothing and leaves
\* memory and file as they were.
C34_DuplicateAddAndAbsentRemove ==
    [][ /\ (result'.op = "add_session" /\ result'.name \in Names(sessions))
            => /\ result'.raised
               /\ result'.saves = 0
               /\ sessions' = sessions
               /\ disk' = disk
        /\ (result'.op = "remove_session"
               /\ result'.name \notin Names(sessions))
            => /\ ~result'.raised
               /\ result'.saves = 0
               /\ sessions' = sessions
               /\ disk' = disk
      ]_vars

\* an add_session under another profile than the record's was refused and
\* the record, in memory and in the file, is the one of the first add
C34_Witness ==
    /\ result.op = "add_session"
    /\ result.raised
    /\ result.saves = 0
    /\ result.name \in Names(sessions)
    /\ get_session(sessions, result.name).connection_config # result.profile
    /\ StateData(sessions) = disk.data

\* C35: the profile of every record in the registry is a profile of the
\* configuration of the running process, and every entry that
\* list_connections returns carries host and user, also when the records
\* were loaded from a state file that an earlier process wrote.
C35_EveryRecordHasProfile ==
    [][ /\ \A k \in DOMAIN sessions' :
              connection_exists(sessions'[k].connection_config)
        /\ result'.op = "list_connections"
            => \A k \in DOMAIN result'.listing :
                  /\ result'.listing[k].has_host
                  /\ result'.listing[k].host # ""
                  /\ result'.listing[k].user # ""
      ]_vars

\* C36: the signatures that open_connection scans the captured pane text
\* for are, in this order, 'connection refused', 'permission denied', 'host
\* key verification failed', 'no route to host', 'network unreachable'; an
\* open_connection whose capture succeeded and returned a text that holds
\* one of these phrases, in any letter case, does not succeed and adds no
\* record.
C36_SignatureList ==
    [][ LET stated == << <<"connection", "refused">>,
                         <<"permission", "denied">>,
                         <<"host", "key", "verification", "failed">>,
                         <<"no", "route", "to", "host">>,
                         <<"network", "unreachable">> >>
        IN (/\ result'.op = "open_connection"
            /\ \E k \in DOMAIN calls' :
                  /\ calls'[k].fn = "capture_pane" /\ calls'[k].ok
                  /\ \E j \in DOMAIN stated :
                        Contains(Lower(calls'[k].ret), stated[j]))
           => /\ error_patterns = stated
              /\ ~result'.success
              /\ result'.name \notin Names(sessions')
      ]_vars

====
